---- MODULE Spec2Model ----
(***************************************************************************)
(* A model of the whisper-rs binding: the shared model handle              *)
(* (WhisperContext), decoding states (WhisperState), the borrowed segment  *)
(* views and the segment iterator, the pipeline operations of a state and  *)
(* the audio conversion utilities.  The engine (whisper.cpp) is external:  *)
(* every value it returns is an input chosen by the action that calls it,  *)
(* and every call made to it is recorded.                                  *)
(***************************************************************************)
EXTENDS Integers, Sequences, FiniteSets, TLC

(* ------------------------------ bounds --------------------------------- *)

\* how many non-null state handles the engine hands out in one run
MaxStates == 2
\* the largest segment count the engine reports after a run of full
MaxSegments == 2
\* the largest token count the engine reports for a segment
MaxTokens == 1
\* how many segment and token views are alive at the same time (beside them,
\* one iterator)
MaxBorrows == 2
\* the longest sample slice given to the conversion utilities
MaxLen == 2
\* how many segment containers the VAD engine hands out in one run
MaxContainers == 1
\* how many threads share the states
MaxThreads == 2

(* --------------------------- machine integers -------------------------- *)

\* c_int is a signed 32-bit integer on every target of the crate
CIntMax == (2^30 - 1) + 2^30
CIntMin == (-(2^30)) - 2^30

\* A usize value hi * 2^31 + lo with 0 <= lo < 2^31: TLC's integers stop at
\* 2^31 - 1, a 64-bit usize does not.
USize(hi, lo) == [hi |-> hi, lo |-> lo]

\* `x as c_int` for a usize x: the low 32 bits, read as two's complement
AsCInt(x) == IF x.hi % 2 = 1 THEN CIntMin + x.lo ELSE x.lo

\* `x < 1` for a usize x
USizeLtOne(x) == x.hi = 0 /\ x.lo < 1

\* `x.is_empty()` / `x.len() == 0` for a slice of length x
USizeIsZero(x) == x.hi = 0 /\ x.lo = 0

(* ------------------------------- values -------------------------------- *)

NullPtr == 0
NoIter == [state_ptr |-> NullPtr]
None == [tag |-> "None"]
Some(v) == [tag |-> "Some", val |-> v]
Ok(v) == [tag |-> "Ok", val |-> v]
Err(e) == [tag |-> "Err", err |-> e, code |-> 0]
\* WhisperError::GenericError(c_int)
GenericError(n) == [tag |-> "Err", err |-> "GenericError", code |-> n]
Panic(msg) == [tag |-> "Panic", msg |-> msg]
Unit == "()"

StatePtrs == 1..MaxStates

VARIABLES
    ctxHandle,    \* the WhisperContext the caller holds: "live" or "dropped"
    strong,       \* strong count of the Arc<WhisperInnerContext>
    nextPtr,      \* the next state handle whisper_init_state hands out
    stStatus,     \* per state handle: "unborn", "live" (a WhisperState owns it) or "dropped"
    nSeg,         \* per state handle: what whisper_full_n_segments_from_state returns
    freeLog,      \* the engine's free routines called so far, in call order
    views,        \* the WhisperSegment views alive
    iter,         \* the WhisperStateSegmentIterator alive, or NoIter
    tokens,       \* the WhisperToken views alive
    last,         \* the last operation: its name, arguments, result and engine calls
    samples,      \* conversion utilities: the input slice
    output,       \* conversion utilities: the output slice
    convRet,      \* conversion utilities: the result of the call, or "none" before it
    input,        \* convert_stereo_to_mono_audio: the interleaved input slice
    outputBefore, \* history: the output slice as the caller handed it in
    convFn,       \* history: the conversion utility that was called, or "none"
    vadCtx,       \* the WhisperVadContext: "unloaded", "live" or "dropped"
    vadSegs,      \* the WhisperVadSegments containers, by the engine's pointer
    vadFrees,     \* the engine's VAD free routines called so far, in order
    running       \* the WhisperState methods in flight, one per thread at most

vars == <<ctxHandle, strong, nextPtr, stStatus, nSeg, freeLog, views, iter, tokens,
          last, samples, output, convRet, input, outputBefore, convFn,
          vadCtx, vadSegs, vadFrees, running>>

lifeVars == <<ctxHandle, strong, nextPtr, stStatus, freeLog>>
navVars == <<views, iter, tokens>>
convVars == <<samples, output, convRet, input, outputBefore, convFn>>
vadVars == <<vadCtx, vadSegs, vadFrees>>
concVars == <<running>>

(* ------------------------- the engine's calls -------------------------- *)

\* one call of an engine routine: its name, the state handle it is given
\* (NullPtr when it takes none) and its integer arguments
Call(fn, state, args) == [fn |-> fn, state |-> state, args |-> args]

Count(log, fn, state) ==
    Cardinality({k \in 1..Len(log) : log[k].fn = fn /\ log[k].state = state})

(* ---------------- WhisperContext: the shared model handle -------------- *)

\* Arc::clone of the WhisperContext's ctx field: the new strong count
ArcClone(n) == n + 1

\* dropping one Arc<WhisperInnerContext>: the new strong count
ArcRelease(n) == n - 1

\* Drop for WhisperInnerContext: releases the model handle
InnerContextDrop == <<Call("whisper_free", NullPtr, <<>>)>>

\* the engine calls made when one reference to the model is released while
\* the strong count is n: the inner context is dropped with the last one
ReleaseModelRef(n) == IF ArcRelease(n) = 0 THEN InnerContextDrop ELSE <<>>

\* WhisperState::new(self.ctx.clone(), state): the strong count after it
\* (faulty variant: the state is built without its own reference)
StateNewNoClone(n) == n
StateNew(n) == ArcClone(n)

\* WhisperContext::create_state on the engine's answer p
\* (faulty variant: the null check is left out)
create_state_unchecked(p) == Ok(p)
create_state(p) == IF p = NullPtr THEN Err("InitError") ELSE Ok(p)

CreateState(p) ==
    /\ ctxHandle = "live"
    /\ IF p = NullPtr
          THEN UNCHANGED <<strong, nextPtr, stStatus>>
          ELSE /\ strong' = StateNew(strong)
               /\ nextPtr' = nextPtr + 1
               /\ stStatus' = [stStatus EXCEPT ![p] = "live"]
    /\ last' = [op |-> "create_state", state |-> p, ret |-> create_state(p),
                calls |-> <<Call("whisper_init_state", NullPtr, <<>>)>>,
                strong_before |-> strong]
    /\ UNCHANGED <<ctxHandle, nSeg, freeLog, navVars, convVars, vadVars, concVars>>

\* the caller drops the WhisperContext: its only field, the Arc, is released
DropContext ==
    /\ ctxHandle = "live"
    /\ ctxHandle' = "dropped"
    /\ strong' = ArcRelease(strong)
    /\ freeLog' = freeLog \o ReleaseModelRef(strong)
    /\ last' = [op |-> "drop_context", state |-> NullPtr, ret |-> Ok(Unit),
                calls |-> ReleaseModelRef(strong)]
    /\ UNCHANGED <<nextPtr, stStatus, nSeg, navVars, convVars, vadVars, concVars>>

(* ----------------------- WhisperState: lifetime ------------------------ *)

\* a shared borrow of state h is alive: a segment view, a token view or an
\* iterator holds &'a WhisperState
\* (faulty variant: views hold a raw pointer, no borrow)
Unborrowed(h) == FALSE
Borrowed(h) ==
    \/ \E v \in views : v.state = h
    \/ \E t \in tokens : t.segment.state = h
    \/ iter.state_ptr = h

\* Drop for WhisperState, then the drop of its fields: whisper_free_state on
\* the handle first, the Arc to the model after it
\* (faulty variants: the model reference released first; the handle leaked)
StateDropModelFirst(h, n) ==
    ReleaseModelRef(n) \o <<Call("whisper_free_state", h, <<>>)>>
StateDropLeak(h, n) == ReleaseModelRef(n)
StateDrop(h, n) == <<Call("whisper_free_state", h, <<>>)>> \o ReleaseModelRef(n)

DropState(h) ==
    /\ stStatus[h] = "live"
    /\ ~Borrowed(h)
    /\ stStatus' = [stStatus EXCEPT ![h] = "dropped"]
    /\ strong' = ArcRelease(strong)
    /\ freeLog' = freeLog \o StateDrop(h, strong)
    /\ last' = [op |-> "drop_state", state |-> h, ret |-> Ok(Unit),
                calls |-> StateDrop(h, strong)]
    /\ UNCHANGED <<ctxHandle, nextPtr, nSeg, navVars, convVars, vadVars, concVars>>

(* ---------------------- WhisperState: navigation ----------------------- *)

\* WhisperState::full_n_segments: whisper_full_n_segments_from_state(self.ptr)
full_n_segments(h) == nSeg[h]

\* WhisperState::segment_in_bounds
\* (faulty variant: <= for <)
segment_in_bounds_inclusive(h, segment) == segment >= 0 /\ segment <= full_n_segments(h)
segment_in_bounds(h, segment) == segment >= 0 /\ segment < full_n_segments(h)

\* (faulty variant: the view is built without the assertion)
new_unchecked_unasserted(h, segment_idx, n_tokens) ==
    Ok([state |-> h, segment_idx |-> segment_idx, token_count |-> n_tokens])

\* WhisperSegment::new_unchecked: the assertion, then the view with the token
\* count n_tokens the engine reports for the segment
new_unchecked(h, segment_idx, n_tokens) ==
    IF segment_in_bounds(h, segment_idx)
        THEN Ok([state |-> h, segment_idx |-> segment_idx, token_count |-> n_tokens])
        ELSE Panic("tried to create a WhisperSegment out of bounds for linked state")

new_unchecked_calls(h, segment_idx) ==
    <<Call("whisper_full_n_segments_from_state", h, <<>>)>>
    \o (IF segment_in_bounds(h, segment_idx)
           THEN <<Call("whisper_full_n_tokens_from_state", h, <<segment_idx>>)>>
           ELSE <<>>)

\* WhisperState::get_segment
get_segment(h, segment, n_tokens) ==
    IF segment_in_bounds(h, segment)
        THEN Some(new_unchecked(h, segment, n_tokens).val)
        ELSE None

get_segment_calls(h, segment) ==
    <<Call("whisper_full_n_segments_from_state", h, <<>>)>>
    \o (IF segment_in_bounds(h, segment) THEN new_unchecked_calls(h, segment) ELSE <<>>)

\* the views alive once the caller has received `ret` and keeps it (keep) or
\* lets the temporary go
Kept(ret, keep) == IF keep /\ ret.tag \in {"Some", "Ok"} THEN views \cup {ret.val} ELSE views

Borrows == Cardinality(views) + Cardinality(tokens)

Room(keep) == keep => Borrows < MaxBorrows

GetSegment(h, segment, n_tokens, keep) ==
    /\ stStatus[h] = "live"
    /\ Room(keep)
    /\ views' = Kept(get_segment(h, segment, n_tokens), keep)
    /\ last' = [op |-> "get_segment", state |-> h, segment |-> segment,
                ret |-> get_segment(h, segment, n_tokens),
                calls |-> get_segment_calls(h, segment)]
    /\ UNCHANGED <<lifeVars, nSeg, iter, tokens, convVars, vadVars, concVars>>

\* WhisperState::get_segment_unchecked
GetSegmentUnchecked(h, segment, n_tokens, keep) ==
    /\ stStatus[h] = "live"
    /\ Room(keep)
    /\ views' = Kept(new_unchecked(h, segment, n_tokens), keep)
    /\ last' = [op |-> "get_segment_unchecked", state |-> h, segment |-> segment,
                ret |-> new_unchecked(h, segment, n_tokens),
                calls |-> new_unchecked_calls(h, segment)]
    /\ UNCHANGED <<lifeVars, nSeg, iter, tokens, convVars, vadVars, concVars>>

\* a segment view goes out of scope; no token view may still borrow it
DropSegment(v) ==
    /\ v \in views
    /\ \A t \in tokens : t.segment # v
    /\ views' = views \ {v}
    /\ last' = [op |-> "drop_segment", state |-> v.state, ret |-> Ok(Unit), calls |-> <<>>]
    /\ UNCHANGED <<lifeVars, nSeg, iter, tokens, convVars, vadVars, concVars>>

\* WhisperSegment::n_tokens: the field set in new_unchecked
segment_n_tokens(v) == v.token_count

NTokens(v) ==
    /\ v \in views
    /\ last' = [op |-> "n_tokens", state |-> v.state, segment |-> v,
                ret |-> segment_n_tokens(v), calls |-> <<>>]
    /\ UNCHANGED <<lifeVars, nSeg, navVars, convVars, vadVars, concVars>>

\* WhisperSegment::token_in_bounds
\* (faulty variant: <= for <)
token_in_bounds_inclusive(v, token_idx) == token_idx >= 0 /\ token_idx <= v.token_count
token_in_bounds(v, token_idx) == token_idx >= 0 /\ token_idx < v.token_count

\* WhisperSegment::get_token, with WhisperToken::new_unchecked
get_token(v, token) ==
    IF token_in_bounds(v, token) THEN Some([segment |-> v, token_idx |-> token]) ELSE None

GetToken(v, token, keep) ==
    /\ v \in views
    /\ Room(keep)
    /\ tokens' = IF keep /\ get_token(v, token).tag = "Some"
                    THEN tokens \cup {get_token(v, token).val} ELSE tokens
    /\ last' = [op |-> "get_token", state |-> v.state, segment |-> v, token |-> token,
                ret |-> get_token(v, token), calls |-> <<>>]
    /\ UNCHANGED <<lifeVars, nSeg, views, iter, convVars, vadVars, concVars>>

DropToken(t) ==
    /\ t \in tokens
    /\ tokens' = tokens \ {t}
    /\ last' = [op |-> "drop_token", state |-> t.segment.state, ret |-> Ok(Unit), calls |-> <<>>]
    /\ UNCHANGED <<lifeVars, nSeg, views, iter, convVars, vadVars, concVars>>

(* ------------------- WhisperStateSegmentIterator ----------------------- *)

\* WhisperStateSegmentIterator::new.  yielded and first_none are history:
\* the indices of the views returned so far, and how many views had been
\* returned when next first returned None (-1 while it has not)
IteratorNewAt(h, start) ==
    [state_ptr |-> h, current_segment |-> start, yielded |-> <<>>, first_none |-> -1]
IteratorNew(h) == IteratorNewAt(h, 0)

\* WhisperState::as_iter
AsIter(h) ==
    /\ stStatus[h] = "live"
    /\ iter = NoIter
    /\ iter' = IteratorNew(h)
    /\ last' = [op |-> "as_iter", state |-> h, ret |-> Ok(Unit), calls |-> <<>>]
    /\ UNCHANGED <<lifeVars, nSeg, views, tokens, convVars, vadVars, concVars>>

\* the iterator after a call of next that returned ret
\* (faulty variant: the cursor is not advanced)
IteratorAdvanceStuck(it, ret) ==
    [it EXCEPT !.yielded = IF ret.tag = "Some" THEN Append(@, ret.val.segment_idx) ELSE @,
               !.first_none = IF ret.tag = "None" /\ @ = -1 THEN Len(it.yielded) ELSE @]
\* (current_segment is a c_int: without overflow checks the increment wraps)
IteratorAdvance(it, ret) ==
    [it EXCEPT !.current_segment = IF @ = CIntMax THEN CIntMin ELSE @ + 1,
               !.yielded = IF ret.tag = "Some" THEN Append(@, ret.val.segment_idx) ELSE @,
               !.first_none = IF ret.tag = "None" /\ @ = -1 THEN Len(it.yielded) ELSE @]

\* Iterator::next for WhisperStateSegmentIterator
\* (`current_segment += 1` at c_int::MAX panics in a build with overflow
\* checks and wraps in one without: either build is possible)
IterNext(n_tokens, keep) ==
    /\ iter # NoIter
    /\ iter.current_segment \in (-1..(MaxSegments + 1)) \cup {CIntMax}
    /\ Len(iter.yielded) <= MaxSegments + 1
    /\ Room(keep)
    /\ LET ret == get_segment(iter.state_ptr, iter.current_segment, n_tokens)
           calls == get_segment_calls(iter.state_ptr, iter.current_segment)
       IN \/ /\ iter' = IteratorAdvance(iter, ret)
             /\ views' = Kept(ret, keep)
             /\ last' = [op |-> "next", state |-> iter.state_ptr,
                         segment |-> iter.current_segment, ret |-> ret, calls |-> calls]
          \/ /\ iter.current_segment = CIntMax
             /\ last' = [op |-> "next", state |-> iter.state_ptr,
                         segment |-> iter.current_segment,
                         ret |-> Panic("attempt to add with overflow"), calls |-> calls]
             /\ UNCHANGED <<iter, views>>
    /\ UNCHANGED <<lifeVars, nSeg, tokens, convVars, vadVars, concVars>>

\* next called again and again while every index from the cursor up to
\* target - 1 is out of bounds: each call returns None and moves the cursor by
\* one, the last of them leaves it at target
IterNextUntil(target) ==
    /\ iter # NoIter
    /\ iter.current_segment < target
    /\ \/ iter.current_segment >= full_n_segments(iter.state_ptr)
       \/ target <= 0
    /\ iter' = [iter EXCEPT !.current_segment = target,
                            !.first_none = IF @ = -1 THEN Len(iter.yielded) ELSE @]
    /\ last' = [op |-> "next", state |-> iter.state_ptr, segment |-> target - 1,
                ret |-> None,
                calls |-> get_segment_calls(iter.state_ptr, target - 1)]
    /\ UNCHANGED <<lifeVars, nSeg, views, tokens, convVars, vadVars, concVars>>

DropIter ==
    /\ iter # NoIter
    /\ iter' = NoIter
    /\ last' = [op |-> "drop_iter", state |-> iter.state_ptr, ret |-> Ok(Unit), calls |-> <<>>]
    /\ UNCHANGED <<lifeVars, nSeg, views, tokens, convVars, vadVars, concVars>>

(* ----------------------- WhisperState: pipeline ------------------------ *)

\* x / d for a usize x and an even d below 2^30, as a plain integer
\* (2^31 = d * q + r with q = 2^30 \div (d/2) and r = 2 * (2^30 % (d/2)))
USizeDiv(x, d) ==
    x.hi * ((2^30) \div (d \div 2)) + (x.lo \div d)
    + ((x.hi * 2 * ((2^30) % (d \div 2)) + (x.lo % d)) \div d)

\* the outcome of a method: what it returns and the engine calls it made
Outcome(ret, calls) == [ret |-> ret, calls |-> calls]

\* WhisperState::pcm_to_mel, the engine returning r
pcm_to_mel(h, len, threads, r) ==
    IF USizeLtOne(threads)
        THEN Outcome(Err("InvalidThreadCount"), <<>>)
        ELSE Outcome(
                IF r = -1 THEN Err("UnableToCalculateSpectrogram")
                ELSE IF r = 0 THEN Ok(Unit)
                ELSE GenericError(r),
                <<Call("whisper_pcm_to_mel_with_state", h, <<AsCInt(len), AsCInt(threads)>>)>>)

hop_size == 160
n_mel == 80

\* twice a quotient q below 2^31, as a usize
USizeTwice(q) == USize(q \div 2^30, (q % 2^30) * 2)

\* (faulty variant: one frame for every 80 floats, twice what the slice holds)
mel_n_len_doubled(len) == USizeTwice(USizeDiv(len, n_mel))

\* n_len = (data.len() / hop_size) * 2, a usize
mel_n_len(len) == USizeTwice(USizeDiv(len, hop_size))

\* WhisperState::set_mel, the engine returning r: `n_len as c_int` and
\* `80 as c_int` are what the engine receives
set_mel(h, len, r) ==
    Outcome(
        IF r = -1 THEN Err("InvalidMelBands")
        ELSE IF r = 0 THEN Ok(Unit)
        ELSE GenericError(r),
        <<Call("whisper_set_mel_with_state", h, <<AsCInt(mel_n_len(len)), n_mel>>)>>)

\* WhisperState::encode, the engine returning r
\* (faulty variant: -1 is reported as it is by pcm_to_mel)
encode_as_spectrogram(h, offset, threads, r) ==
    IF USizeLtOne(threads)
        THEN Outcome(Err("InvalidThreadCount"), <<>>)
        ELSE Outcome(
                IF r = -1 THEN Err("UnableToCalculateSpectrogram")
                ELSE IF r = 0 THEN Ok(Unit)
                ELSE GenericError(r),
                <<Call("whisper_encode_with_state", h, <<AsCInt(offset), AsCInt(threads)>>)>>)
encode(h, offset, threads, r) ==
    IF USizeLtOne(threads)
        THEN Outcome(Err("InvalidThreadCount"), <<>>)
        ELSE Outcome(
                IF r = -1 THEN Err("UnableToCalculateEvaluation")
                ELSE IF r = 0 THEN Ok(Unit)
                ELSE GenericError(r),
                <<Call("whisper_encode_with_state", h, <<AsCInt(offset), AsCInt(threads)>>)>>)

\* WhisperState::decode, the engine returning r
decode(h, n_tokens, n_past, threads, r) ==
    IF USizeLtOne(threads)
        THEN Outcome(Err("InvalidThreadCount"), <<>>)
        ELSE Outcome(
                IF r = -1 THEN Err("UnableToCalculateEvaluation")
                ELSE IF r = 0 THEN Ok(Unit)
                ELSE GenericError(r),
                <<Call("whisper_decode_with_state", h,
                       <<AsCInt(n_tokens), AsCInt(n_past), AsCInt(threads)>>)>>)

\* WhisperState::lang_detect, the engine returning r
\* (faulty variant: no thread-count check)
lang_detect_unchecked(h, offset_ms, threads, r) ==
    Outcome(
        IF r < 0 THEN GenericError(r) ELSE Ok(r),
        <<Call("whisper_lang_auto_detect_with_state", h,
               <<AsCInt(offset_ms), AsCInt(threads)>>)>>)
lang_detect(h, offset_ms, threads, r) ==
    IF USizeLtOne(threads)
        THEN Outcome(Err("InvalidThreadCount"), <<>>)
        ELSE Outcome(
                IF r < 0 THEN GenericError(r) ELSE Ok(r),
                <<Call("whisper_lang_auto_detect_with_state", h,
                       <<AsCInt(offset_ms), AsCInt(threads)>>)>>)

\* WhisperState::full on a slice of length len, the engine returning r
\* (faulty variants: 7 and 8 swapped; no emptiness check)
full_swapped(h, len, r) ==
    IF USizeIsZero(len)
        THEN Outcome(Err("NoSamples"), <<>>)
        ELSE Outcome(
                IF r = -1 THEN Err("UnableToCalculateSpectrogram")
                ELSE IF r = 7 THEN Err("FailedToDecode")
                ELSE IF r = 8 THEN Err("FailedToEncode")
                ELSE IF r = 0 THEN Ok(r)
                ELSE GenericError(r),
                <<Call("whisper_full_with_state", h, <<AsCInt(len)>>)>>)
full_unchecked(h, len, r) ==
    Outcome(
        IF r = -1 THEN Err("UnableToCalculateSpectrogram")
        ELSE IF r = 7 THEN Err("FailedToEncode")
        ELSE IF r = 8 THEN Err("FailedToDecode")
        ELSE IF r = 0 THEN Ok(r)
        ELSE GenericError(r),
        <<Call("whisper_full_with_state", h, <<AsCInt(len)>>)>>)
full(h, len, r) ==
    IF USizeIsZero(len)
        THEN Outcome(Err("NoSamples"), <<>>)
        ELSE Outcome(
                IF r = -1 THEN Err("UnableToCalculateSpectrogram")
                ELSE IF r = 7 THEN Err("FailedToEncode")
                ELSE IF r = 8 THEN Err("FailedToDecode")
                ELSE IF r = 0 THEN Ok(r)
                ELSE GenericError(r),
                <<Call("whisper_full_with_state", h, <<AsCInt(len)>>)>>)

\* a call of a method taking &mut self (exclusive) or &self on state h: the
\* record of the call, and the segment count n the engine leaves behind when
\* the method is full and the engine ran
Method(op, h, exclusive, args, r, out, n) ==
    /\ stStatus[h] = "live"
    /\ exclusive => ~Borrowed(h)
    /\ last' = [op |-> op, state |-> h, args |-> args, engine_ret |-> r,
                ret |-> out.ret, calls |-> out.calls, n_segments_before |-> nSeg[h]]
    /\ nSeg' = IF op = "full" /\ out.calls # <<>> THEN [nSeg EXCEPT ![h] = n] ELSE nSeg
    /\ UNCHANGED <<lifeVars, navVars, convVars, vadVars, concVars>>

PcmToMel(h, len, threads, r) ==
    Method("pcm_to_mel", h, TRUE, [len |-> len, threads |-> threads], r,
           pcm_to_mel(h, len, threads, r), nSeg[h])

SetMel(h, len, r) ==
    Method("set_mel", h, TRUE, [len |-> len], r, set_mel(h, len, r), nSeg[h])

Encode(h, offset, threads, r) ==
    Method("encode", h, TRUE, [offset |-> offset, threads |-> threads], r,
           encode(h, offset, threads, r), nSeg[h])

Decode(h, n_tokens, n_past, threads, r) ==
    Method("decode", h, TRUE, [len |-> n_tokens, n_past |-> n_past, threads |-> threads], r,
           decode(h, n_tokens, n_past, threads, r), nSeg[h])

LangDetect(h, offset_ms, threads, r) ==
    Method("lang_detect", h, FALSE, [offset |-> offset_ms, threads |-> threads], r,
           lang_detect(h, offset_ms, threads, r), nSeg[h])

\* n: the segment count of the engine's result when it ran
Full(h, len, r, n) ==
    Method("full", h, TRUE, [len |-> len], r, full(h, len, r), n)

(* ------------------------ conversion utilities ------------------------- *)

\* An f32 value m * 2^e, kept normal: m odd, or m = 0 and e = 0.  Every value
\* used here has fewer than 24 significant bits, so none is rounded.
RECURSIVE F32(_, _)
F32(m, e) ==
    IF m = 0 THEN [m |-> 0, e |-> 0]
    ELSE IF m % 2 = 0 THEN F32(m \div 2, e + 1)
    ELSE [m |-> m, e |-> e]

\* `x as f32` for an i16 x: exact
I16AsF32(x) == F32(x, 0)

\* a / b in f32 for b a power of two: exact
F32DivPow2(a, b) == F32(a.m, a.e - b.e)

\* the literal 32768.0
Scale == F32(1, 15)

Min(a, b) == IF a < b THEN a ELSE b

\* convert_integer_to_float_audio: the result and the output slice after it
\* (faulty variant: the division is left out)
convert_integer_to_float_audio_unscaled(xs, ys) ==
    IF Len(xs) # Len(ys)
        THEN [ret |-> [tag |-> "Err", err |-> "InputOutputLengthMismatch",
                       input_len |-> Len(xs), output_len |-> Len(ys)],
              output |-> ys]
        ELSE [ret |-> Ok(Unit),
              output |-> [i \in 1..Len(ys) |->
                             IF i <= Min(Len(xs), Len(ys)) THEN I16AsF32(xs[i]) ELSE ys[i]]]
\* (faulty variant: the two lengths change places in the error)
convert_integer_to_float_audio_swapped(xs, ys) ==
    IF Len(xs) # Len(ys)
        THEN [ret |-> [tag |-> "Err", err |-> "InputOutputLengthMismatch",
                       input_len |-> Len(ys), output_len |-> Len(xs)],
              output |-> ys]
        ELSE [ret |-> Ok(Unit),
              output |-> [i \in 1..Len(ys) |->
                             IF i <= Min(Len(xs), Len(ys))
                                 THEN F32DivPow2(I16AsF32(xs[i]), Scale)
                                 ELSE ys[i]]]
convert_integer_to_float_audio(xs, ys) ==
    IF Len(xs) # Len(ys)
        THEN [ret |-> [tag |-> "Err", err |-> "InputOutputLengthMismatch",
                       input_len |-> Len(xs), output_len |-> Len(ys)],
              output |-> ys]
        ELSE [ret |-> Ok(Unit),
              output |-> [i \in 1..Len(ys) |->
                             IF i <= Min(Len(xs), Len(ys))
                                 THEN F32DivPow2(I16AsF32(xs[i]), Scale)
                                 ELSE ys[i]]]

NotCalled == [tag |-> "NotCalled"]

ConvertIntegerToFloatAudio ==
    /\ convRet = NotCalled
    /\ convRet' = convert_integer_to_float_audio(samples, output).ret
    /\ output' = convert_integer_to_float_audio(samples, output).output
    /\ convFn' = "convert_integer_to_float_audio"
    /\ UNCHANGED <<lifeVars, nSeg, navVars, last, samples, input, outputBefore,
                  vadVars, concVars>>

(* ------------------- stereo to mono (utilities.rs) ---------------------- *)

Abs(x) == IF x < 0 THEN -x ELSE x

Max(a, b) == IF a < b THEN b ELSE a

\* the number of binary digits of n >= 0
RECURSIVE BitLen(_)
BitLen(n) == IF n = 0 THEN 0 ELSE 1 + BitLen(n \div 2)

\* the exponent of the smallest positive f32, 2^-149
MinExp == 0 - 149

\* s * 2^e rounded to the nearest f32: 24 significant bits, nothing below
\* 2^MinExp, ties to the even significand (values stay far below overflow)
F32Round(s, e) ==
    LET k == Max(Max(BitLen(Abs(s)) - 24, MinExp - e), 0)
        q == Abs(s) \div 2^k
        r == Abs(s) % 2^k
        up == k > 0 /\ (2 * r > 2^k \/ (2 * r = 2^k /\ q % 2 = 1))
        mag == IF up THEN q + 1 ELSE q
    IN  F32(IF s < 0 THEN -mag ELSE mag, e + k)

\* a + b in f32.  An operand 27 or more binary places below the other's leading
\* digit is under a quarter of the other's last place and leaves it unchanged;
\* otherwise the exact sum is rounded (the operands drawn in FrameSamples align
\* within TLC's integers).
F32Add(a, b) ==
    IF a.m = 0 THEN b
    ELSE IF b.m = 0 THEN a
    ELSE LET ta == a.e + BitLen(Abs(a.m))
             tb == b.e + BitLen(Abs(b.m))
             e == Min(a.e, b.e)
         IN  IF ta - tb >= 27 THEN a
             ELSE IF tb - ta >= 27 THEN b
             ELSE F32Round(a.m * 2^(a.e - e) + b.m * 2^(b.e - e), e)

\* a / 2.0 in f32: exact unless the result falls below 2^MinExp
F32Half(a) == F32Round(a.m, a.e - 1)

HalfSampleMissing(n) == [tag |-> "Err", err |-> "HalfSampleMissing", size |-> n]

\* (faulty variant: the pairs overlap, each sample is paired with its successor)
as_chunks_2_overlapping(xs) ==
    [chunks |-> [k \in 1..(Len(xs) \div 2) |-> <<xs[k], xs[k + 1]>>],
     rest |-> Len(xs) % 2]

\* input.as_chunks::<2>(): the whole pairs, and the samples left over
as_chunks_2(xs) ==
    [chunks |-> [k \in 1..(Len(xs) \div 2) |-> <<xs[2 * k - 1], xs[2 * k]>>],
     rest |-> Len(xs) % 2]

\* (faulty variant: a missing half sample is reported with the number of pairs)
convert_stereo_to_mono_audio_pairs_reported(xs, ys) ==
    LET c == as_chunks_2(xs) IN
    IF c.rest # 0
        THEN [ret |-> HalfSampleMissing(Len(c.chunks)), output |-> ys]
    ELSE IF Len(ys) # Len(c.chunks)
        THEN [ret |-> [tag |-> "Err", err |-> "InputOutputLengthMismatch",
                       input_len |-> Len(c.chunks), output_len |-> Len(ys)],
              output |-> ys]
    ELSE [ret |-> Ok(Unit),
          output |-> [i \in 1..Len(ys) |->
                         F32Half(F32Add(c.chunks[i][1], c.chunks[i][2]))]]

\* (faulty variant: a length mismatch is reported with the number of samples)
convert_stereo_to_mono_audio_samples_reported(xs, ys) ==
    LET c == as_chunks_2(xs) IN
    IF c.rest # 0
        THEN [ret |-> HalfSampleMissing(Len(xs)), output |-> ys]
    ELSE IF Len(ys) # Len(c.chunks)
        THEN [ret |-> [tag |-> "Err", err |-> "InputOutputLengthMismatch",
                       input_len |-> Len(xs), output_len |-> Len(ys)],
              output |-> ys]
    ELSE [ret |-> Ok(Unit),
          output |-> [i \in 1..Len(ys) |->
                         F32Half(F32Add(c.chunks[i][1], c.chunks[i][2]))]]

\* convert_stereo_to_mono_audio: the result and the output slice after it.
\* After the let-else `input` names the pairs, so the lengths compared and
\* reported in the mismatch are the number of pairs and the output length.
convert_stereo_to_mono_audio(xs, ys) ==
    LET c == as_chunks_2(xs) IN
    IF c.rest # 0
        THEN [ret |-> HalfSampleMissing(Len(xs)), output |-> ys]
    ELSE IF Len(ys) # Len(c.chunks)
        THEN [ret |-> [tag |-> "Err", err |-> "InputOutputLengthMismatch",
                       input_len |-> Len(c.chunks), output_len |-> Len(ys)],
              output |-> ys]
    ELSE [ret |-> Ok(Unit),
          output |-> [i \in 1..Len(ys) |->
                         F32Half(F32Add(c.chunks[i][1], c.chunks[i][2]))]]

ConvertStereoToMonoAudio ==
    /\ convRet = NotCalled
    /\ convRet' = convert_stereo_to_mono_audio(input, output).ret
    /\ output' = convert_stereo_to_mono_audio(input, output).output
    /\ convFn' = "convert_stereo_to_mono_audio"
    /\ UNCHANGED <<lifeVars, nSeg, navVars, last, samples, input, outputBefore,
                  vadVars, concVars>>

(* ------------- WhisperVadContext, WhisperVadSegments (whisper_vad.rs) --- *)

\* the containers the engine hands out, numbered in the order it creates them
VadSegmentPtrs == 1..MaxContainers

NoSegments == [status |-> "unborn"]

DroppedSegments == [status |-> "dropped"]

\* the handle of the loaded VAD context
VadCtxPtr == "vad"

\* what the engine stores for segment idx of container p: its start and end
\* timestamps, opaque here and different for every segment
EngineT0(p, idx) == 100 * p + 10 * idx
EngineT1(p, idx) == 100 * p + 10 * idx + 5

NullPointer == Err("NullPointer")

\* CString::new: the bytes of a &str become a C string unless one of them is 0
HasNul(path) == \E i \in DOMAIN path : path[i] = 0

\* WhisperVadContext::new on the bytes of model_path, the engine answering
\* null or a context: `expect` panics before the engine is reached
vad_new(model_path, engine_null) ==
    IF HasNul(model_path)
        THEN Outcome(Panic("VAD model path contains null byte"), <<>>)
        ELSE Outcome(IF engine_null THEN NullPointer ELSE Ok(VadCtxPtr),
                     <<Call("whisper_vad_init_from_file_with_params", NullPtr,
                            <<model_path>>)>>)

VadNew(model_path, engine_null) ==
    /\ vadCtx = "unloaded"
    /\ vadCtx' = IF vad_new(model_path, engine_null).ret = Ok(VadCtxPtr)
                 THEN "live" ELSE "unloaded"
    /\ last' = [op |-> "vad_new", container |-> NullPtr, model_path |-> model_path,
                ret |-> vad_new(model_path, engine_null).ret,
                calls |-> vad_new(model_path, engine_null).calls,
                containers_before |-> vadSegs]
    /\ UNCHANGED <<lifeVars, nSeg, navVars, convVars, vadSegs, vadFrees, concVars>>

\* (faulty variant: the engine's failure is not looked at)
vad_detect_speech_unchecked(len, success) ==
    Outcome(Ok(Unit), <<Call("whisper_vad_detect_speech", VadCtxPtr, <<AsCInt(len)>>)>>)

\* WhisperVadContext::detect_speech on a slice of len samples, the engine
\* answering success
vad_detect_speech(len, success) ==
    Outcome(IF ~success THEN GenericError(-1) ELSE Ok(Unit),
            <<Call("whisper_vad_detect_speech", VadCtxPtr, <<AsCInt(len)>>)>>)

VadDetectSpeech(len, success) ==
    /\ vadCtx = "live"
    /\ last' = [op |-> "detect_speech", container |-> NullPtr, success |-> success,
                ret |-> vad_detect_speech(len, success).ret,
                calls |-> vad_detect_speech(len, success).calls,
                containers_before |-> vadSegs]
    /\ UNCHANGED <<lifeVars, nSeg, navVars, convVars, vadVars, concVars>>

\* WhisperVadSegments::new: the count is read from the engine once, here
VadSegmentsNew(ptr, n) ==
    [container |-> [status |-> "live", segment_count |-> n, iter_idx |-> 0,
                    yielded |-> <<>>, ended |-> FALSE],
     calls |-> <<Call("whisper_vad_segments_n_segments", ptr, <<>>)>>]

\* the tail shared by segments_from_probabilities and segments_from_samples:
\* the engine returned ptr, a container of n segments unless ptr is null
VadSegmentsResult(op, engine_call, ptr, n) ==
    /\ vadCtx = "live"
    /\ ptr # NullPtr => /\ vadSegs[ptr] = NoSegments
                        /\ \A q \in VadSegmentPtrs : q < ptr => vadSegs[q] # NoSegments
    /\ vadSegs' = IF ptr = NullPtr THEN vadSegs
                  ELSE [vadSegs EXCEPT ![ptr] = VadSegmentsNew(ptr, n).container]
    /\ last' = [op |-> op, container |-> ptr,
                ret |-> IF ptr = NullPtr THEN NullPointer ELSE Ok(ptr),
                calls |-> IF ptr = NullPtr THEN <<engine_call>>
                          ELSE <<engine_call>> \o VadSegmentsNew(ptr, n).calls,
                containers_before |-> vadSegs]
    /\ UNCHANGED <<lifeVars, nSeg, navVars, convVars, vadCtx, vadFrees, concVars>>

VadSegmentsFromProbabilities(ptr, n) ==
    VadSegmentsResult("segments_from_probabilities",
                      Call("whisper_vad_segments_from_probs", VadCtxPtr, <<>>), ptr, n)

VadSegmentsFromSamples(len, ptr, n) ==
    VadSegmentsResult("segments_from_samples",
                      Call("whisper_vad_segments_from_samples", VadCtxPtr, <<AsCInt(len)>>),
                      ptr, n)

\* (faulty variant: the context's drop also releases the first live container)
VadDropContextAndSegments ==
    /\ vadCtx = "live"
    /\ vadCtx' = "dropped"
    /\ LET live == {p \in VadSegmentPtrs : vadSegs[p].status = "live"}
           frees == IF live = {} THEN <<>>
                    ELSE <<Call("whisper_vad_free_segments",
                                CHOOSE p \in live : \A q \in live : p <= q, <<>>)>>
       IN  /\ vadSegs' = [p \in VadSegmentPtrs |->
                             IF live # {} /\ p = frees[1].state
                                 THEN DroppedSegments ELSE vadSegs[p]]
           /\ vadFrees' = Append(vadFrees, Call("whisper_vad_free", VadCtxPtr, <<>>))
                              \o frees
           /\ last' = [op |-> "drop_vad_context", container |-> NullPtr,
                       ret |-> Ok(Unit),
                       calls |-> <<Call("whisper_vad_free", VadCtxPtr, <<>>)>> \o frees,
                       containers_before |-> vadSegs]
    /\ UNCHANGED <<lifeVars, nSeg, navVars, convVars, concVars>>

\* impl Drop for WhisperVadContext
VadDropContext ==
    /\ vadCtx = "live"
    /\ vadCtx' = "dropped"
    /\ vadFrees' = Append(vadFrees, Call("whisper_vad_free", VadCtxPtr, <<>>))
    /\ last' = [op |-> "drop_vad_context", container |-> NullPtr, ret |-> Ok(Unit),
                calls |-> <<Call("whisper_vad_free", VadCtxPtr, <<>>)>>,
                containers_before |-> vadSegs]
    /\ UNCHANGED <<lifeVars, nSeg, navVars, convVars, vadSegs, concVars>>

\* impl Drop for WhisperVadSegments
VadDropSegments(p) ==
    /\ vadSegs[p].status = "live"
    /\ vadSegs' = [vadSegs EXCEPT ![p] = DroppedSegments]
    /\ vadFrees' = Append(vadFrees, Call("whisper_vad_free_segments", p, <<>>))
    /\ last' = [op |-> "drop_vad_segments", container |-> p, ret |-> Ok(Unit),
                calls |-> <<Call("whisper_vad_free_segments", p, <<>>)>>,
                containers_before |-> vadSegs]
    /\ UNCHANGED <<lifeVars, nSeg, navVars, convVars, vadCtx, concVars>>

num_segments(p) == vadSegs[p].segment_count

\* (faulty variant: the index one past the end is accepted)
index_in_bounds_inclusive(p, idx) == idx >= 0 /\ idx <= vadSegs[p].segment_count

index_in_bounds(p, idx) == idx >= 0 /\ idx < vadSegs[p].segment_count

get_segment_start_timestamp(p, idx) ==
    IF index_in_bounds(p, idx)
        THEN Outcome(Some(EngineT0(p, idx)),
                     <<Call("whisper_vad_segments_get_segment_t0", p, <<idx>>)>>)
        ELSE Outcome(None, <<>>)

get_segment_end_timestamp(p, idx) ==
    IF index_in_bounds(p, idx)
        THEN Outcome(Some(EngineT1(p, idx)),
                     <<Call("whisper_vad_segments_get_segment_t1", p, <<idx>>)>>)
        ELSE Outcome(None, <<>>)

\* WhisperVadSegments::get_segment: each `?` returns None at once
vad_get_segment(p, idx) ==
    LET start == get_segment_start_timestamp(p, idx)
        end == get_segment_end_timestamp(p, idx)
    IN  IF start.ret = None THEN Outcome(None, start.calls)
        ELSE IF end.ret = None THEN Outcome(None, start.calls \o end.calls)
        ELSE Outcome(Some([start |-> start.ret.val, end |-> end.ret.val]),
                     start.calls \o end.calls)

\* a `&self` method of a live container: nothing but the result
VadRead(op, p, idx, out) ==
    /\ vadSegs[p].status = "live"
    /\ last' = [op |-> op, container |-> p, idx |-> idx, ret |-> out.ret,
                calls |-> out.calls, containers_before |-> vadSegs]
    /\ UNCHANGED <<lifeVars, nSeg, navVars, convVars, vadVars, concVars>>

VadNumSegments(p) == VadRead("num_segments", p, 0, Outcome(num_segments(p), <<>>))

VadGetSegmentStartTimestamp(p, idx) ==
    VadRead("get_segment_start_timestamp", p, idx, get_segment_start_timestamp(p, idx))

VadGetSegmentEndTimestamp(p, idx) ==
    VadRead("get_segment_end_timestamp", p, idx, get_segment_end_timestamp(p, idx))

VadGetSegment(p, idx) == VadRead("get_segment", p, idx, vad_get_segment(p, idx))

\* (faulty variant: the cursor stays where it is)
VadIteratorAdvanceStuck(c, ret) ==
    IF ret = None THEN [c EXCEPT !.ended = TRUE]
    ELSE [c EXCEPT !.yielded = Append(@, ret.val)]

\* the container after Iterator::next returned ret: `?` leaves on None before
\* the cursor moves (yielded and ended are history)
VadIteratorAdvance(c, ret) ==
    IF ret = None THEN [c EXCEPT !.ended = TRUE]
    ELSE [c EXCEPT !.iter_idx = @ + 1, !.yielded = Append(@, ret.val)]

\* impl Iterator for WhisperVadSegments: next
VadIterNext(p) ==
    /\ vadSegs[p].status = "live"
    /\ LET c == vadSegs[p]
           out == vad_get_segment(p, c.iter_idx)
       IN  /\ vadSegs' = [vadSegs EXCEPT ![p] = VadIteratorAdvance(c, out.ret)]
           /\ last' = [op |-> "vad_next", container |-> p, idx |-> c.iter_idx,
                       ret |-> out.ret, calls |-> out.calls,
                       containers_before |-> vadSegs]
    /\ UNCHANGED <<lifeVars, nSeg, navVars, convVars, vadCtx, vadFrees, concVars>>

(* ------------- threads sharing states (whisper_state.rs, Send + Sync) --- *)

Threads == 1..MaxThreads

\* the operations named as mutating, and the ones that read a state's results
MutatingOps == {"pcm_to_mel", "set_mel", "encode", "decode", "lang_detect", "full"}
ReadingOps == {"full_n_segments", "get_segment"}

\* the receiver of each method: TRUE for `&mut self`, FALSE for `&self`
\* (lang_detect and the readers take `&self`)
Exclusive(op) == op \in {"pcm_to_mel", "set_mel", "encode", "decode", "full"}

\* what the borrow checker lets a thread start on state h while the calls in
\* `running` hold their borrows: WhisperState is Sync, so `&self` methods may
\* be entered from any thread beside other `&self` borrows; a `&mut self`
\* method needs the state to itself
MayBorrow(op, h) ==
    IF Exclusive(op)
        THEN ~Borrowed(h) /\ \A c \in running : c.state # h
        ELSE \A c \in running : c.state = h => ~Exclusive(c.op)

\* thread t enters method op of state h; the call blocks until the engine is done
BeginCall(t, op, h) ==
    /\ \A c \in running : c.thread # t
    /\ stStatus[h] = "live"
    /\ MayBorrow(op, h)
    /\ running' = running \cup {[thread |-> t, op |-> op, state |-> h]}
    /\ UNCHANGED <<lifeVars, nSeg, navVars, last, convVars, vadVars>>

\* the result of the call c when the engine answers r (one sample, one thread,
\* offset 0 are the arguments)
CallResult(c, r) ==
    LET h == c.state IN
    CASE c.op = "pcm_to_mel" -> pcm_to_mel(h, USize(0, 1), USize(0, 1), r)
      [] c.op = "set_mel" -> set_mel(h, USize(0, 160), r)
      [] c.op = "encode" -> encode(h, USize(0, 0), USize(0, 1), r)
      [] c.op = "decode" -> decode(h, USize(0, 1), USize(0, 0), USize(0, 1), r)
      [] c.op = "lang_detect" -> lang_detect(h, USize(0, 0), USize(0, 1), r)
      [] c.op = "full" -> full(h, USize(0, 1), r)
      [] c.op = "full_n_segments" ->
             Outcome(Ok(full_n_segments(h)),
                     <<Call("whisper_full_n_segments_from_state", h, <<>>)>>)
      [] c.op = "get_segment" -> Outcome(get_segment(h, 0, 0), get_segment_calls(h, 0))

\* the call of thread t returns, the engine having answered r (and, for a run
\* of full, left n segments)
ReturnCall(t, r, n) ==
    \E c \in running :
        /\ c.thread = t
        /\ running' = running \ {c}
        /\ last' = [op |-> c.op, state |-> c.state, engine_ret |-> r,
                    ret |-> CallResult(c, r).ret, calls |-> CallResult(c, r).calls,
                    n_segments_before |-> nSeg[c.state]]
        /\ nSeg' = IF c.op = "full" /\ CallResult(c, r).calls # <<>>
                      THEN [nSeg EXCEPT ![c.state] = n] ELSE nSeg
        /\ UNCHANGED <<lifeVars, navVars, convVars, vadVars>>

(* ------------- text of segments and tokens (segment.rs) ----------------- *)

\* what the engine's text getter returns: a null pointer, or a pointer to a
\* NUL-terminated string with the given bytes before the terminator
NullText == [null |-> TRUE]
EngineText(bytes) == [null |-> FALSE, bytes |-> bytes]

\* a UTF-8 continuation byte, 0x80..0xBF
IsCont(b) == b >= 128 /\ b <= 191

\* the length of the sequence the lead byte b announces, 0 for a byte that
\* cannot lead (continuation bytes, 0xC0, 0xC1, 0xF5..0xFF)
Utf8Width(b) ==
    IF b < 128 THEN 1
    ELSE IF b >= 194 /\ b <= 223 THEN 2
    ELSE IF b >= 224 /\ b <= 239 THEN 3
    ELSE IF b >= 240 /\ b <= 244 THEN 4
    ELSE 0

\* the second byte c allowed after the lead byte b: no overlong forms, no
\* surrogates, nothing above U+10FFFF
Utf8SecondOk(b, c) ==
    IF b = 224 THEN c >= 160 /\ c <= 191
    ELSE IF b = 237 THEN c >= 128 /\ c <= 159
    ELSE IF b = 240 THEN c >= 144 /\ c <= 191
    ELSE IF b = 244 THEN c >= 128 /\ c <= 143
    ELSE IsCont(c)

\* byte k after position i of s, or -1 past the end
ByteAt(s, i, k) == IF i + k <= Len(s) THEN s[i + k] ELSE -1

\* the length of the well-formed character starting at position i, 0 if none
Utf8CharLen(s, i) ==
    LET w == Utf8Width(s[i]) IN
    IF w <= 1 THEN w
    ELSE IF /\ Utf8SecondOk(s[i], ByteAt(s, i, 1))
            /\ \A k \in 2..(w - 1) : IsCont(ByteAt(s, i, k))
        THEN w
    ELSE 0

\* the length of the ill-formed sequence starting at position i: the longest
\* prefix of a well-formed character, one byte at least
Utf8InvalidLen(s, i) ==
    LET w == Utf8Width(s[i]) IN
    IF w = 0 \/ ~Utf8SecondOk(s[i], ByteAt(s, i, 1)) THEN 1
    ELSE IF ~IsCont(ByteAt(s, i, 2)) THEN 2
    ELSE 3

\* core::str::from_utf8 accepts s from position i on
RECURSIVE Utf8ValidFrom(_, _)
Utf8ValidFrom(s, i) ==
    IF i > Len(s) THEN TRUE
    ELSE IF Utf8CharLen(s, i) = 0 THEN FALSE
    ELSE Utf8ValidFrom(s, i + Utf8CharLen(s, i))

\* the bytes U+FFFD is encoded with
Replacement == <<239, 191, 189>>

\* String::from_utf8_lossy on s from position i on: well-formed characters
\* are copied, every ill-formed sequence becomes one U+FFFD
RECURSIVE Utf8LossyFrom(_, _)
Utf8LossyFrom(s, i) ==
    IF i > Len(s) THEN <<>>
    ELSE IF Utf8CharLen(s, i) > 0
        THEN SubSeq(s, i, i + Utf8CharLen(s, i) - 1) \o Utf8LossyFrom(s, i + Utf8CharLen(s, i))
    ELSE Replacement \o Utf8LossyFrom(s, i + Utf8InvalidLen(s, i))

\* From<Utf8Error> for WhisperError
InvalidUtf8 == Err("InvalidUtf8")

\* to_raw_cstr on the engine's answer t
to_raw_cstr(t) == IF t.null THEN NullPointer ELSE Ok(t.bytes)

to_bytes(t) ==
    IF to_raw_cstr(t).tag = "Err" THEN to_raw_cstr(t) ELSE Ok(to_raw_cstr(t).val)

to_str(t) ==
    IF to_raw_cstr(t).tag = "Err" THEN to_raw_cstr(t)
    ELSE IF Utf8ValidFrom(to_raw_cstr(t).val, 1) THEN Ok(to_raw_cstr(t).val)
    ELSE InvalidUtf8

\* (faulty variant: ill-formed bytes are an error here too)
to_str_lossy_strict(t) == to_str(t)

to_str_lossy(t) ==
    IF to_raw_cstr(t).tag = "Err" THEN to_raw_cstr(t)
    ELSE Ok(Utf8LossyFrom(to_raw_cstr(t).val, 1))

TextOps == {"to_bytes", "to_str", "to_str_lossy"}

TextResult(op, t) ==
    CASE op = "to_bytes" -> to_bytes(t)
      [] op = "to_str" -> to_str(t)
      [] op = "to_str_lossy" -> to_str_lossy(t)

\* WhisperSegment::to_bytes / to_str / to_str_lossy, the engine answering t
SegmentText(v, op, t) ==
    /\ v \in views
    /\ last' = [op |-> op, state |-> v.state, target |-> "segment", engine_text |-> t,
                ret |-> TextResult(op, t),
                calls |-> <<Call("whisper_full_get_segment_text_from_state", v.state,
                                 <<v.segment_idx>>)>>]
    /\ UNCHANGED <<lifeVars, nSeg, navVars, convVars, vadVars, concVars>>

\* WhisperToken::to_bytes / to_str / to_str_lossy, the engine answering t
TokenText(tk, op, t) ==
    /\ tk \in tokens
    /\ last' = [op |-> op, state |-> tk.segment.state, target |-> "token", engine_text |-> t,
                ret |-> TextResult(op, t),
                calls |-> <<Call("whisper_full_get_token_text_from_state", tk.segment.state,
                                 <<tk.segment.segment_idx, tk.token_idx>>)>>]
    /\ UNCHANGED <<lifeVars, nSeg, navVars, convVars, vadVars, concVars>>

(* --------------------------- inputs ------------------------------------ *)

\* segment and token indices handed to the getters: any c_int
Indices == (-1..MaxSegments) \cup {CIntMin, CIntMax}

\* what the engine's integer-returning routines return
EngineRets == {CIntMin, -2, -1, 0, 1, 7, 8, CIntMax}

\* thread counts: 0, 1, and usize values beyond c_int (2^31, 2^32)
ThreadCounts == {USize(0, 0), USize(0, 1), USize(1, 0), USize(2, 0)}

\* slice lengths: empty, small, around the mel hop size, and beyond c_int
SliceLens == {USize(0, 0), USize(0, 1), USize(0, 160), USize(0, 321),
              USize(0, CIntMax), USize(1, 0), USize(2, 0), USize(80, 0)}

TokenLens == {USize(0, 0), USize(0, 1), USize(1, 0)}

Offsets == {USize(0, 0), USize(0, 3000)}

I16Samples == {-32768, -1, 0, 1, 12345, 32767}

OutputFill == {F32(0, 0), F32(1, 0)}

SeqsUpTo(S, n) == UNION {[1..k -> S] : k \in 0..n}

(* ------------------------- specifications ------------------------------ *)

StartLast == [op |-> "init", state |-> NullPtr, ret |-> Ok(Unit), calls |-> <<>>]

\* the program after the model is loaded: one WhisperContext, no state yet
Init ==
    /\ ctxHandle = "live"
    /\ strong = 1
    /\ nextPtr = 1
    /\ stStatus = [h \in StatePtrs |-> "unborn"]
    /\ nSeg = [h \in StatePtrs |-> 0]
    /\ freeLog = <<>>
    /\ views = {}
    /\ iter = NoIter
    /\ tokens = {}
    /\ last = StartLast
    /\ samples = <<>>
    /\ output = <<>>
    /\ convRet = NotCalled
    /\ input = <<>>
    /\ outputBefore = output
    /\ convFn = "none"
    /\ vadCtx = "unloaded"
    /\ vadSegs = [p \in VadSegmentPtrs |-> NoSegments]
    /\ vadFrees = <<>>
    /\ running = {}

\* Handles and their borrowers: every order of creating and dropping the
\* model handle, the states, and the views and iterator that borrow a state.
\* The results are one segment of one token, so that every getter can succeed.
Next ==
    \/ \E p \in {NullPtr} \cup {q \in StatePtrs : q = nextPtr} : CreateState(p)
    \/ DropContext
    \/ \E h \in StatePtrs : DropState(h)
    \/ \E h \in StatePtrs : Full(h, USize(0, 1), 0, 1)
    \/ \E h \in StatePtrs : GetSegment(h, 0, 1, TRUE)
    \/ \E v \in views : DropSegment(v)
    \/ \E v \in views : GetToken(v, 0, TRUE)
    \/ \E t \in tokens : DropToken(t)
    \/ \E h \in StatePtrs : AsIter(h)
    \/ \E keep \in BOOLEAN : IterNext(1, keep)
    \/ DropIter

Spec == Init /\ [][Next]_vars

\* the pipeline of one state: the program after one successful create_state
PipeInit ==
    /\ ctxHandle = "live"
    /\ strong = 2
    /\ nextPtr = 2
    /\ stStatus = [h \in StatePtrs |-> IF h = 1 THEN "live" ELSE "unborn"]
    /\ nSeg = [h \in StatePtrs |-> 0]
    /\ freeLog = <<>>
    /\ views = {}
    /\ iter = NoIter
    /\ tokens = {}
    /\ last = StartLast
    /\ samples = <<>>
    /\ output = <<>>
    /\ convRet = NotCalled
    /\ input = <<>>
    /\ outputBefore = output
    /\ convFn = "none"
    /\ vadCtx = "unloaded"
    /\ vadSegs = [p \in VadSegmentPtrs |-> NoSegments]
    /\ vadFrees = <<>>
    /\ running = {}

PipeNext ==
    \E h \in StatePtrs, r \in EngineRets :
        \/ \E len \in SliceLens, th \in ThreadCounts : PcmToMel(h, len, th, r)
        \/ \E len \in SliceLens : SetMel(h, len, r)
        \/ \E off \in Offsets, th \in ThreadCounts : Encode(h, off, th, r)
        \/ \E len \in TokenLens, past \in Offsets, th \in ThreadCounts :
              Decode(h, len, past, th, r)
        \/ \E off \in Offsets, th \in ThreadCounts : LangDetect(h, off, th, r)
        \/ \E len \in SliceLens, n \in 0..MaxSegments : Full(h, len, r, n)

SpecPipe == PipeInit /\ [][PipeNext]_vars

\* Navigation of the results of one state: the program after one successful
\* create_state, with every index and every segment and token count
NavNext ==
    \/ \E h \in StatePtrs, n \in 0..MaxSegments : Full(h, USize(0, 1), 0, n)
    \/ \E h \in StatePtrs, i \in Indices, t \in 0..MaxTokens, keep \in BOOLEAN :
          GetSegment(h, i, t, keep)
    \/ \E h \in StatePtrs, i \in Indices, t \in 0..MaxTokens :
          GetSegmentUnchecked(h, i, t, FALSE)
    \/ \E v \in views : DropSegment(v)
    \/ \E v \in views : NTokens(v)
    \/ \E v \in views, i \in Indices, keep \in BOOLEAN : GetToken(v, i, keep)
    \/ \E t \in tokens : DropToken(t)
    \/ \E h \in StatePtrs : AsIter(h)
    \/ \E t \in 0..MaxTokens, keep \in BOOLEAN : IterNext(t, keep)
    \/ DropIter

SpecNav == PipeInit /\ [][NavNext]_vars

\* the conversion utilities on every pair of slices within the bounds
ConvInit ==
    /\ ctxHandle = "live"
    /\ strong = 1
    /\ nextPtr = 1
    /\ stStatus = [h \in StatePtrs |-> "unborn"]
    /\ nSeg = [h \in StatePtrs |-> 0]
    /\ freeLog = <<>>
    /\ views = {}
    /\ iter = NoIter
    /\ tokens = {}
    /\ last = StartLast
    /\ samples \in SeqsUpTo(I16Samples, MaxLen)
    /\ \E k \in 0..MaxLen, f \in OutputFill : output = [i \in 1..k |-> f]
    /\ convRet = NotCalled
    /\ input = <<>>
    /\ outputBefore = output
    /\ convFn = "none"
    /\ vadCtx = "unloaded"
    /\ vadSegs = [p \in VadSegmentPtrs |-> NoSegments]
    /\ vadFrees = <<>>
    /\ running = {}

ConvNext == ConvertIntegerToFloatAudio

SpecConv == ConvInit /\ [][ConvNext]_vars

\* interleaved f32 samples: zero, a negative unit, the largest odd multiple of
\* two below 2^25 (its sums need rounding), and the smallest positive f32
FrameSamples == {F32(0, 0), F32(-1, 0), F32(16777215, 1), F32(1, MinExp)}

\* either converter, on any slices of its sample type up to the bounds
ConvAllInit ==
    /\ ctxHandle = "live"
    /\ strong = 1
    /\ nextPtr = 1
    /\ stStatus = [h \in StatePtrs |-> "unborn"]
    /\ nSeg = [h \in StatePtrs |-> 0]
    /\ freeLog = <<>>
    /\ views = {}
    /\ iter = NoIter
    /\ tokens = {}
    /\ last = StartLast
    /\ \/ samples \in SeqsUpTo(I16Samples, MaxLen) /\ input = <<>>
       \/ samples = <<>> /\ input \in SeqsUpTo(FrameSamples, 2 * MaxLen)
    /\ \E k \in 0..MaxLen, f \in OutputFill : output = [i \in 1..k |-> f]
    /\ convRet = NotCalled
    /\ outputBefore = output
    /\ convFn = "none"
    /\ vadCtx = "unloaded"
    /\ vadSegs = [p \in VadSegmentPtrs |-> NoSegments]
    /\ vadFrees = <<>>
    /\ running = {}

ConvAllNext ==
    \/ ConvertIntegerToFloatAudio
    \/ ConvertStereoToMonoAudio

SpecConvAll == ConvAllInit /\ [][ConvAllNext]_vars

\* lengths of the sample slices handed to the VAD: empty, one, and 2^31
VadSampleLens == {USize(0, 0), USize(0, 1), USize(1, 0)}

\* the program after WhisperVadContext::new succeeded
VadInit ==
    /\ ctxHandle = "live"
    /\ strong = 1
    /\ nextPtr = 1
    /\ stStatus = [h \in StatePtrs |-> "unborn"]
    /\ nSeg = [h \in StatePtrs |-> 0]
    /\ freeLog = <<>>
    /\ views = {}
    /\ iter = NoIter
    /\ tokens = {}
    /\ last = StartLast
    /\ samples = <<>>
    /\ output = <<>>
    /\ convRet = NotCalled
    /\ input = <<>>
    /\ outputBefore = output
    /\ convFn = "none"
    /\ vadCtx = "live"
    /\ vadSegs = [p \in VadSegmentPtrs |-> NoSegments]
    /\ vadFrees = <<>>
    /\ running = {}

VadNext ==
    \/ \E len \in VadSampleLens, success \in BOOLEAN : VadDetectSpeech(len, success)
    \/ \E ptr \in VadSegmentPtrs \cup {NullPtr}, n \in 0..MaxSegments :
          \/ VadSegmentsFromProbabilities(ptr, n)
          \/ \E len \in VadSampleLens : VadSegmentsFromSamples(len, ptr, n)
    \/ VadDropContext
    \/ \E p \in VadSegmentPtrs :
          \/ VadDropSegments(p)
          \/ VadNumSegments(p)
          \/ VadIterNext(p)
          \/ \E idx \in Indices :
                \/ VadGetSegmentStartTimestamp(p, idx)
                \/ VadGetSegmentEndTimestamp(p, idx)
                \/ VadGetSegment(p, idx)

SpecVad == VadInit /\ [][VadNext]_vars

\* model paths as bytes: "m", the empty path, and "m\0b"
VadPaths == {<<109>>, <<>>, <<109, 0, 98>>}

\* the program before WhisperVadContext::new is called
VadLoadInit ==
    /\ ctxHandle = "live"
    /\ strong = 1
    /\ nextPtr = 1
    /\ stStatus = [h \in StatePtrs |-> "unborn"]
    /\ nSeg = [h \in StatePtrs |-> 0]
    /\ freeLog = <<>>
    /\ views = {}
    /\ iter = NoIter
    /\ tokens = {}
    /\ last = StartLast
    /\ samples = <<>>
    /\ output = <<>>
    /\ convRet = NotCalled
    /\ input = <<>>
    /\ outputBefore = output
    /\ convFn = "none"
    /\ vadCtx = "unloaded"
    /\ vadSegs = [p \in VadSegmentPtrs |-> NoSegments]
    /\ vadFrees = <<>>
    /\ running = {}

VadLoadNext ==
    \/ \E model_path \in VadPaths, engine_null \in BOOLEAN : VadNew(model_path, engine_null)
    \/ VadNext

SpecVadLoad == VadLoadInit /\ [][VadLoadNext]_vars

\* the program after the model is loaded and every state is created
ConcInit ==
    /\ ctxHandle = "live"
    /\ strong = 1 + MaxStates
    /\ nextPtr = 1 + MaxStates
    /\ stStatus = [h \in StatePtrs |-> "live"]
    /\ nSeg = [h \in StatePtrs |-> 0]
    /\ freeLog = <<>>
    /\ views = {}
    /\ iter = NoIter
    /\ tokens = {}
    /\ last = StartLast
    /\ samples = <<>>
    /\ output = <<>>
    /\ convRet = NotCalled
    /\ input = <<>>
    /\ outputBefore = output
    /\ convFn = "none"
    /\ vadCtx = "unloaded"
    /\ vadSegs = [p \in VadSegmentPtrs |-> NoSegments]
    /\ vadFrees = <<>>
    /\ running = {}

ConcNext ==
    \E t \in Threads :
        \/ \E op \in MutatingOps \cup ReadingOps, h \in StatePtrs : BeginCall(t, op, h)
        \/ \E r \in {-1, 0}, n \in {0, 1} : ReturnCall(t, r, n)

SpecConc == ConcInit /\ [][ConcNext]_vars

\* bytes of the engine's texts: 'A', continuation bytes 0x80 and 0xA9, the
\* leads 0xC3 (two bytes) and 0xE0 (three bytes), and 0xFF, which never occurs
\* in UTF-8
TextBytes == {65, 128, 169, 195, 224, 255}

EngineTexts == {NullText} \cup {EngineText(s) : s \in SeqsUpTo(TextBytes, MaxLen)}

\* the program after a run of full left one segment of one token, with a view
\* of the segment and a view of its token in the caller's hands
TextInit ==
    /\ ctxHandle = "live"
    /\ strong = 2
    /\ nextPtr = 2
    /\ stStatus = [h \in StatePtrs |-> IF h = 1 THEN "live" ELSE "unborn"]
    /\ nSeg = [h \in StatePtrs |-> IF h = 1 THEN 1 ELSE 0]
    /\ freeLog = <<>>
    /\ views = {[state |-> 1, segment_idx |-> 0, token_count |-> 1]}
    /\ iter = NoIter
    /\ tokens = {[segment |-> [state |-> 1, segment_idx |-> 0, token_count |-> 1],
                  token_idx |-> 0]}
    /\ last = StartLast
    /\ samples = <<>>
    /\ output = <<>>
    /\ convRet = NotCalled
    /\ input = <<>>
    /\ outputBefore = output
    /\ convFn = "none"
    /\ vadCtx = "unloaded"
    /\ vadSegs = [p \in VadSegmentPtrs |-> NoSegments]
    /\ vadFrees = <<>>
    /\ running = {}

TextNext ==
    \E op \in TextOps, t \in EngineTexts :
        \/ \E v \in views : SegmentText(v, op, t)
        \/ \E tk \in tokens : TokenText(tk, op, t)

SpecText == TextInit /\ [][TextNext]_vars

\* the cursor values a run of empty results is followed to: the largest c_int
\* and the last negative one
CursorTargets == {CIntMax, -1}

IterSpecNext ==
    \/ \E h \in StatePtrs, n \in 0..MaxSegments : Full(h, USize(0, 1), 0, n)
    \/ \E h \in StatePtrs : AsIter(h)
    \/ \E t \in 0..MaxTokens, keep \in BOOLEAN : IterNext(t, keep)
    \/ \E v \in views : DropSegment(v)
    \/ \E target \in CursorTargets : IterNextUntil(target)
    \/ DropIter

SpecIter == PipeInit /\ [][IterSpecNext]_vars

(* ------------------------------ properties ----------------------------- *)

ModelFreeCalls == Count(freeLog, "whisper_free", NullPtr)

StateFreeCalls(h) == Count(freeLog, "whisper_free_state", h)

LiveStates == {h \in StatePtrs : stStatus[h] = "live"}

\* the co-owners of the model: the WhisperContext while it is alive, and
\* every live state
CoOwners == (IF ctxHandle = "live" THEN 1 ELSE 0) + Cardinality(LiveStates)

\* C1: whisper_free has been called exactly once when no co-owner of the
\* model is left (the model handle and every state created from it are
\* dropped), and not at all while one remains.
C1_ModelFreedOnceWithLastCoOwner ==
    ModelFreeCalls = (IF CoOwners = 0 THEN 1 ELSE 0)

\* the model handle went last, after two states
C1_Witness ==
    /\ last.op = "drop_context"
    /\ ModelFreeCalls = 1
    /\ Len(freeLog) >= 3

\* C2: whisper_free is never called while a state created from the model is
\* unfreed: every whisper_free_state call precedes the whisper_free call, and
\* once whisper_free is called every state ever created has been freed.
C2_StatesFreedBeforeModel ==
    /\ \A i, j \in 1..Len(freeLog) :
          (freeLog[i].fn = "whisper_free" /\ freeLog[j].fn = "whisper_free_state") => j < i
    /\ ModelFreeCalls > 0 =>
          \A h \in StatePtrs : stStatus[h] # "unborn" => StateFreeCalls(h) >= 1

\* the model handle was dropped first; the drop of the last state freed the
\* state and then the model
C2_Witness ==
    /\ last.op = "drop_state"
    /\ Len(freeLog) >= 3
    /\ freeLog[Len(freeLog)].fn = "whisper_free"
    /\ freeLog[Len(freeLog) - 1] = Call("whisper_free_state", last.state, <<>>)

\* C3: whisper_free_state is called exactly once for the handle of a dropped
\* state and never for another, and no engine call other than that one free
\* is given the handle of a state that is not alive.
C3_StateFreedOnceNeverUsedAfter ==
    /\ \A h \in StatePtrs :
          StateFreeCalls(h) = (IF stStatus[h] = "dropped" THEN 1 ELSE 0)
    /\ \A k \in 1..Len(last.calls) :
          (last.calls[k].state # NullPtr /\ last.calls[k].fn # "whisper_free_state")
              => stStatus[last.calls[k].state] = "live"

\* one state is dropped while another, created from the same model, is still read
C3_Witness ==
    /\ \E h \in StatePtrs : stStatus[h] = "dropped" /\ StateFreeCalls(h) = 1
    /\ last.op = "next"
    /\ last.ret.tag = "Some"

\* C4: every segment view, token view and iterator alive refers to a state
\* that is alive (its handle is not freed).
C4_StateOutlivesViews ==
    /\ \A v \in views : stStatus[v.state] = "live"
    /\ \A t \in tokens : stStatus[t.segment.state] = "live"
    /\ iter # NoIter => stStatus[iter.state_ptr] = "live"

\* a segment view, a token view of it and an iterator are alive, after the
\* model handle and another state were dropped
C4_Witness ==
    /\ views # {}
    /\ tokens # {}
    /\ iter # NoIter
    /\ ctxHandle = "dropped"
    /\ \E h \in StatePtrs : stStatus[h] = "dropped"

\* C5: get_segment(i) returns a view of segment i of the state when
\* 0 <= i < full_n_segments(), and nothing for every other c_int i.
C5_GetSegmentBounds ==
    last.op = "get_segment" =>
        IF 0 <= last.segment /\ last.segment < nSeg[last.state]
            THEN /\ last.ret.tag = "Some"
                 /\ last.ret.val.segment_idx = last.segment
                 /\ last.ret.val.state = last.state
            ELSE last.ret = None

\* the last segment of two was fetched
C5_Witness ==
    /\ last.op = "get_segment"
    /\ last.ret.tag = "Some"
    /\ nSeg[last.state] = 2
    /\ last.segment = 1

\* C6: the k-th view an iterator yields names segment k (from 0), and when
\* next first returns nothing the iterator has yielded exactly
\* full_n_segments() views.
C6_IteratorYieldsAllInOrder ==
    iter # NoIter =>
        /\ \A k \in 1..Len(iter.yielded) : iter.yielded[k] = k - 1
        /\ iter.first_none = -1 => Len(iter.yielded) <= nSeg[iter.state_ptr]
        /\ iter.first_none # -1 => iter.first_none = nSeg[iter.state_ptr]

\* an iterator over two segments has been run to its first empty result
C6_Witness ==
    /\ iter # NoIter
    /\ iter.first_none = 2
    /\ iter.yielded = <<0, 1>>

\* C7: full on an empty slice returns NoSamples, makes no engine call and
\* leaves the segment count of the state as it was.
C7_FullEmptyIsNoSamples ==
    (last.op = "full" /\ USizeIsZero(last.args.len)) =>
        /\ last.ret = Err("NoSamples")
        /\ last.calls = <<>>
        /\ nSeg[last.state] = last.n_segments_before

\* full on an empty slice, on a state that holds two segments
C7_Witness ==
    /\ last.op = "full"
    /\ USizeIsZero(last.args.len)
    /\ nSeg[last.state] = 2
    /\ last.ret.tag = "Err"

\* C8: on a non-empty slice full calls the engine once and maps its return r:
\* 0 to success, -1 to UnableToCalculateSpectrogram, 7 to FailedToEncode, 8 to
\* FailedToDecode, every other r to GenericError(r).
C8_FullReturnMapping ==
    (last.op = "full" /\ ~USizeIsZero(last.args.len)) =>
        /\ Len(last.calls) = 1
        /\ last.calls[1].fn = "whisper_full_with_state"
        /\ last.ret = CASE last.engine_ret = 0 -> Ok(0)
                        [] last.engine_ret = -1 -> Err("UnableToCalculateSpectrogram")
                        [] last.engine_ret = 7 -> Err("FailedToEncode")
                        [] last.engine_ret = 8 -> Err("FailedToDecode")
                        [] OTHER -> GenericError(last.engine_ret)

\* the engine returned 7 on a non-empty slice
C8_Witness ==
    /\ last.op = "full"
    /\ ~USizeIsZero(last.args.len)
    /\ last.engine_ret = 7
    /\ last.ret = Err("FailedToEncode")

\* C9: pcm_to_mel, encode, decode and lang_detect given a thread count of 0
\* return InvalidThreadCount and make no engine call.
C9_ZeroThreadsRejected ==
    (last.op \in {"pcm_to_mel", "encode", "decode", "lang_detect"}
        /\ last.args.threads = USize(0, 0)) =>
        /\ last.ret = Err("InvalidThreadCount")
        /\ last.calls = <<>>

\* lang_detect with no threads, where the engine would have succeeded
C9_Witness ==
    /\ last.op = "lang_detect"
    /\ last.args.threads = USize(0, 0)
    /\ last.engine_ret = 1
    /\ last.ret.tag = "Err"

\* the f32 value f is exactly the rational num / den
F32Is(f, num, den) ==
    IF f.e >= 0 THEN f.m * (2^f.e) * den = num ELSE f.m * den = num * (2^(-f.e))

\* C10: on slices of equal length convert_integer_to_float_audio succeeds and
\* leaves output[i] = samples[i] / 32768 for every index i.
C10_IntegerToFloatExact ==
    (convRet # NotCalled /\ Len(samples) = Len(output)) =>
        /\ convRet = Ok(Unit)
        /\ \A i \in 1..Len(samples) : F32Is(output[i], samples[i], 32768)

\* two samples, the first the most negative one, were converted
C10_Witness ==
    /\ convRet = Ok(Unit)
    /\ Len(samples) = 2
    /\ samples[1] = -32768
    /\ samples[2] = 12345


(* ------------------- C11-C14: stereo to mono ---------------------------- *)

InputOutputLengthMismatch(i, o) ==
    [tag |-> "Err", err |-> "InputOutputLengthMismatch", input_len |-> i, output_len |-> o]

StereoCalled == convFn = "convert_stereo_to_mono_audio"

IntegerCalled == convFn = "convert_integer_to_float_audio"

\* C11: for an interleaved input of even length and an output of exactly half
\* that length, convert_stereo_to_mono_audio succeeds and every output sample
\* is the f32 value of (left + right) / 2.0 of its pair.
C11_StereoAveragesPairs ==
    (StereoCalled /\ Len(input) % 2 = 0 /\ Len(outputBefore) = Len(input) \div 2) =>
        /\ convRet = Ok(Unit)
        /\ Len(output) = Len(outputBefore)
        /\ \A i \in 1..Len(output) :
               output[i] = F32Half(F32Add(input[2 * i - 1], input[2 * i]))

\* two pairs: (33554430.0 + -1.0) / 2.0 = 16777214.0 after the tie goes to the
\* even significand, and (2^-149 + 0.0) / 2.0 = 0.0
C11_Witness ==
    /\ StereoCalled
    /\ input = <<F32(16777215, 1), F32(-1, 0), F32(1, MinExp), F32(0, 0)>>
    /\ convRet = Ok(Unit)
    /\ output = <<F32(8388607, 1), F32(0, 0)>>
    /\ outputBefore # output

\* C12: for an input of odd length and any output, convert_stereo_to_mono_audio
\* fails with HalfSampleMissing carrying the full input length, and the output
\* is left as it was.
C12_OddInputIsHalfSampleMissing ==
    (StereoCalled /\ Len(input) % 2 = 1) =>
        /\ convRet = HalfSampleMissing(Len(input))
        /\ output = outputBefore

C12_Witness ==
    /\ StereoCalled
    /\ Len(input) = 3
    /\ Len(outputBefore) = 1
    /\ convRet = HalfSampleMissing(3)

C14_StereoMismatchReportsPairs ==
    (StereoCalled /\ Len(input) % 2 = 0 /\ Len(outputBefore) # Len(input) \div 2) =>
        /\ convRet.tag = "Err"
        /\ convRet.err = "InputOutputLengthMismatch"
        /\ convRet.input_len = Len(input) \div 2
        /\ convRet.output_len = Len(outputBefore)

\* 4 samples and an output one short of the 2 pairs
C14_Witness ==
    /\ StereoCalled
    /\ Len(input) = 4
    /\ Len(outputBefore) = 1
    /\ convRet.tag = "Err"
    /\ convRet.input_len = 2
    /\ convRet.output_len = 1


(* ------------------- C15, C16, C20: voice activity detection ------------ *)

VadLive == {p \in VadSegmentPtrs : vadSegs[p].status = "live"}

\* the segment the engine stores at idx of container p
EngineSegment(p, idx) == [start |-> EngineT0(p, idx), end |-> EngineT1(p, idx)]

\* C15: iterating a VAD segment container yields exactly num_segments() items
\* before the first empty result, the k-th item is get_segment(k), and
\* num_segments() is the same before, during and after the iteration.
C15_VadIterationYieldsAllInOrder ==
    /\ \A p \in VadLive :
           /\ Len(vadSegs[p].yielded) <= num_segments(p)
           /\ vadSegs[p].ended => Len(vadSegs[p].yielded) = num_segments(p)
           /\ \A k \in 1..Len(vadSegs[p].yielded) :
                  vadSegs[p].yielded[k] = vad_get_segment(p, k - 1).ret.val
           /\ last.containers_before[p].status = "live" =>
                  num_segments(p) = last.containers_before[p].segment_count
    /\ last.op = "num_segments" => last.ret = num_segments(last.container)
    /\ (last.op = "vad_next" /\ last.ret = None) =>
           Len(vadSegs[last.container].yielded) = num_segments(last.container)

\* a container of two segments iterated to its end, then asked its count
C15_Witness ==
    /\ last.op = "num_segments"
    /\ last.ret = 2
    /\ vadSegs[last.container].ended
    /\ vadSegs[last.container].yielded = <<EngineSegment(last.container, 0),
                                           EngineSegment(last.container, 1)>>

VadGetters == {"get_segment", "get_segment_start_timestamp", "get_segment_end_timestamp"}

\* what a getter returns for an index in range
VadExpected(op, p, idx) ==
    IF op = "get_segment" THEN EngineSegment(p, idx)
    ELSE IF op = "get_segment_start_timestamp" THEN EngineT0(p, idx)
    ELSE EngineT1(p, idx)

\* C16: get_segment, get_segment_start_timestamp and get_segment_end_timestamp
\* return a value exactly when 0 <= idx < num_segments(); the engine's getters
\* are never called with an index out of that range, nor is the count read
\* again; the value does not depend on how far the iteration has gone.
C16_VadGettersBounds ==
    /\ last.op \in VadGetters =>
           LET p == last.container
               inside == 0 <= last.idx /\ last.idx < num_segments(p)
           IN  /\ last.ret # None <=> inside
               /\ inside => last.ret = Some(VadExpected(last.op, p, last.idx))
               /\ ~inside => last.calls = <<>>
    /\ last.op \in VadGetters \cup {"vad_next"} =>
           \A k \in 1..Len(last.calls) :
               /\ last.calls[k].fn \in {"whisper_vad_segments_get_segment_t0",
                                        "whisper_vad_segments_get_segment_t1"}
               /\ last.calls[k].state = last.container
               /\ 0 <= last.calls[k].args[1]
               /\ last.calls[k].args[1] < last.containers_before[last.container].segment_count

\* the first segment fetched after the iteration has run to its end
C16_Witness ==
    /\ last.op = "get_segment"
    /\ last.idx = 0
    /\ last.ret = Some(EngineSegment(last.container, 0))
    /\ vadSegs[last.container].ended
    /\ vadSegs[last.container].iter_idx = 2

VadSegmentMakers == {"segments_from_probabilities", "segments_from_samples"}

\* C20: detect_speech returns GenericError(-1), and no other error, exactly
\* when the engine reports failure; segments_from_probabilities and
\* segments_from_samples return NullPointer exactly when the engine returns
\* null, and then no container is created and the segment-free routine is not
\* called.
C20_VadErrors ==
    /\ last.op = "detect_speech" =>
           /\ last.ret = GenericError(-1) <=> ~last.success
           /\ last.ret = Ok(Unit) <=> last.success
    /\ last.op \in VadSegmentMakers =>
           /\ last.ret = NullPointer <=> last.container = NullPtr
           /\ last.container # NullPtr =>
                  /\ last.ret = Ok(last.container)
                  /\ vadSegs[last.container].status = "live"
           /\ last.container = NullPtr =>
                  /\ vadSegs = last.containers_before
                  /\ Len(last.calls) = 1
                  /\ \A k \in 1..Len(last.calls) :
                         last.calls[k].fn \notin {"whisper_vad_free_segments",
                                                  "whisper_vad_segments_n_segments"}

\* the engine returns null while an earlier container is alive
C20_Witness ==
    /\ last.op = "segments_from_samples"
    /\ last.ret = NullPointer
    /\ VadLive # {}
    /\ vadFrees = <<>>


(* ------------------- C17: the cached token count ------------------------ *)

ViewMakers == {"get_segment", "get_segment_unchecked", "next"}

TokenCountCalls(calls) ==
    {k \in 1..Len(calls) : calls[k].fn = "whisper_full_n_tokens_from_state"}

\* C17: a segment view fetches its token count from the engine exactly once,
\* when it is constructed (and not at all when no view is made); n_tokens()
\* returns that cached count; get_token(i) returns a token exactly when
\* 0 <= i < the cached count; neither consults the engine again.
C17_TokenCountCachedOnce ==
    /\ last.op \in ViewMakers =>
           /\ last.ret.tag \in {"Some", "Ok"} =>
                  /\ Cardinality(TokenCountCalls(last.calls)) = 1
                  /\ \A k \in TokenCountCalls(last.calls) :
                         /\ last.calls[k].state = last.state
                         /\ last.calls[k].args = <<last.ret.val.segment_idx>>
           /\ last.ret.tag \notin {"Some", "Ok"} => TokenCountCalls(last.calls) = {}
    /\ last.op = "n_tokens" =>
           /\ last.ret = last.segment.token_count
           /\ last.calls = <<>>
    /\ last.op = "get_token" =>
           /\ last.ret # None <=> (0 <= last.token /\ last.token < last.segment.token_count)
           /\ last.ret # None => last.ret = Some([segment |-> last.segment,
                                                   token_idx |-> last.token])
           /\ last.calls = <<>>

\* the only token of a one-token view, fetched while the view is held
C17_Witness ==
    /\ last.op = "get_token"
    /\ last.segment \in views
    /\ last.segment.token_count = 1
    /\ last.token = 0
    /\ last.ret # None
    /\ last.calls = <<>>


(* ------------------- C19: create_state and the co-owner count ----------- *)

\* C19: create_state returns InitError when the engine returns null, and then
\* the co-owner count is unchanged and no state is ever freed for it; when the
\* engine returns a handle the new state holds one more reference; the
\* co-owner count is always 1 for the model handle while it is alive plus the
\* number of live states.
C19_CreateStateCoOwners ==
    /\ strong = CoOwners
    /\ StateFreeCalls(NullPtr) = 0
    /\ last.op = "create_state" =>
           /\ last.ret = Err("InitError") <=> last.state = NullPtr
           /\ last.state = NullPtr => strong = last.strong_before
           /\ last.state # NullPtr =>
                  /\ last.ret = Ok(last.state)
                  /\ stStatus[last.state] = "live"
                  /\ strong = last.strong_before + 1

\* the engine fails to make a second state: the handle and the first state
\* remain the two co-owners
C19_Witness ==
    /\ last.op = "create_state"
    /\ last.ret = Err("InitError")
    /\ ctxHandle = "live"
    /\ Cardinality(LiveStates) = 1
    /\ strong = 2
    /\ freeLog = <<>>


(* ------------------- C18: exclusive access to a state ------------------- *)

\* C18: no two of pcm_to_mel, set_mel, encode, decode, lang_detect and full
\* execute on one state at the same time, nor does one of them execute while
\* another thread reads that state's results; calls that overlap are on
\* different states (or are both reads).
C18_MutatingOpsExclusive ==
    \A c1, c2 \in running :
        (c1 # c2 /\ c1.state = c2.state) =>
            (c1.op \notin MutatingOps /\ c2.op \notin MutatingOps)


(* ------------------- C21: text decoding --------------------------------- *)

\* C21: for a segment view and for a token view, to_bytes, to_str and
\* to_str_lossy each fail with NullPointer exactly when the engine returns a
\* null text pointer; InvalidUtf8 is returned only by to_str and only when the
\* non-null bytes are not valid UTF-8; so on one engine answer to_str_lossy
\* succeeds whenever to_str did not fail with NullPointer, and to_bytes
\* succeeds exactly when to_str_lossy does.
C21_TextDecodingErrors ==
    last.op \in TextOps =>
        LET t == last.engine_text IN
        /\ last.ret = NullPointer <=> t.null
        /\ last.ret = InvalidUtf8 =>
               /\ last.op = "to_str"
               /\ ~t.null
               /\ ~Utf8ValidFrom(t.bytes, 1)
        /\ last.ret.tag \in {"Ok", "Err"}
        /\ last.ret.tag = "Err" => last.ret \in {NullPointer, InvalidUtf8}
        /\ (last.op = "to_bytes" /\ ~t.null) => last.ret = Ok(t.bytes)
        /\ (last.op = "to_str" /\ last.ret.tag = "Ok") => last.ret = Ok(t.bytes)
        /\ to_str(t) # NullPointer => to_str_lossy(t).tag = "Ok"
        /\ to_bytes(t).tag = "Ok" <=> to_str_lossy(t).tag = "Ok"

\* a token whose text is 'A' followed by the stray byte 0xFF, decoded lossily:
\* 'A' and U+FFFD
C21_Witness ==
    /\ last.op = "to_str_lossy"
    /\ last.target = "token"
    /\ last.engine_text = EngineText(<<65, 255>>)
    /\ last.ret = Ok(<<65, 239, 191, 189>>)
    /\ to_str(last.engine_text) = InvalidUtf8


(* ------------------- C22: the low-level return mapping ------------------ *)

\* the error an engine return of -1 becomes, by operation
MinusOneError(op) ==
    CASE op = "pcm_to_mel" -> Err("UnableToCalculateSpectrogram")
      [] op = "set_mel" -> Err("InvalidMelBands")
      [] op \in {"encode", "decode"} -> Err("UnableToCalculateEvaluation")

\* the call went past the thread-count check (set_mel has none)
ThreadsValid == last.op = "set_mel" \/ ~USizeLtOne(last.args.threads)

\* C22: called with a valid thread count, pcm_to_mel, set_mel, encode and
\* decode map the engine's return r as 0 to success, -1 to their own error
\* (UnableToCalculateSpectrogram, InvalidMelBands, UnableToCalculateEvaluation,
\* UnableToCalculateEvaluation) and every other r to GenericError(r);
\* lang_detect maps r < 0 to GenericError(r) and r >= 0 to success with
\* language id r.
C22_LowLevelReturnMapping ==
    /\ (last.op \in {"pcm_to_mel", "set_mel", "encode", "decode"} /\ ThreadsValid) =>
           /\ Len(last.calls) = 1
           /\ last.ret = IF last.engine_ret = 0 THEN Ok(Unit)
                         ELSE IF last.engine_ret = -1 THEN MinusOneError(last.op)
                         ELSE GenericError(last.engine_ret)
    /\ (last.op = "lang_detect" /\ ThreadsValid) =>
           /\ Len(last.calls) = 1
           /\ last.ret = IF last.engine_ret < 0 THEN GenericError(last.engine_ret)
                         ELSE Ok(last.engine_ret)

\* encode with 2^31 threads (a valid usize count), the engine returning -1
C22_Witness ==
    /\ last.op = "encode"
    /\ last.args.threads = USize(1, 0)
    /\ last.engine_ret = -1
    /\ last.ret = Err("UnableToCalculateEvaluation")


(* ------------------- C23: the iterator after its first empty result ----- *)

\* C23: once next() has returned nothing, every later call of next() on the
\* same iterator returns nothing as well: nothing is yielded after the first
\* empty result, and no later call ends otherwise.
C23_NoneIsFinal ==
    (iter # NoIter /\ iter.first_none # -1) =>
        /\ Len(iter.yielded) = iter.first_none
        /\ last.op = "next" => last.ret = None


(* ------------------- C24, C25, C28, C30: what the engine is handed ------- *)

\* the engine routines that take the length of a caller's slice, first of
\* their integer arguments
LengthTakers == {"whisper_pcm_to_mel_with_state", "whisper_full_with_state",
                 "whisper_decode_with_state", "whisper_vad_detect_speech",
                 "whisper_vad_segments_from_samples"}

\* C24: every length passed to the engine (the sample count of pcm_to_mel,
\* full, detect_speech and segments_from_samples, the token count of decode)
\* is non-negative and equals the length of the caller's slice, whatever that
\* length is.
C24_LengthsReachEngineUnchanged ==
    \A k \in 1..Len(last.calls) :
        last.calls[k].fn \in LengthTakers =>
            /\ last.calls[k].args[1] >= 0
            /\ last.op \in {"pcm_to_mel", "full", "decode"} =>
                   USize(0, last.calls[k].args[1]) = last.args.len

\* C25: for a slice of length len set_mel hands the engine the frame count
\* (len / 160) * 2 and the mel-bin count 80, and nothing else, for every len.
C25_SetMelFrameCount ==
    last.op = "set_mel" =>
        /\ Len(last.calls) = 1
        /\ last.calls[1].args[1] >= 0
        /\ USize(0, last.calls[1].args[1]) = USizeTwice(USizeDiv(last.args.len, 160))
        /\ last.calls[1].args[2] = 80

\* C28: whenever pcm_to_mel, encode, decode or lang_detect calls the engine,
\* the thread count the engine receives (the last integer argument) is at
\* least 1.
C28_EngineThreadsAtLeastOne ==
    last.op \in {"pcm_to_mel", "encode", "decode", "lang_detect"} =>
        \A k \in 1..Len(last.calls) :
            last.calls[k].args[Len(last.calls[k].args)] >= 1

\* C30: the floats set_mel tells the engine the spectrogram holds, the frame
\* count times 80, are at most len.  The frame count is even, so this is:
\* half the frame count, times 160, is at most len, that is, half the frame
\* count is at most len / 160.
C30_SetMelWithinSlice ==
    last.op = "set_mel" =>
        LET frames == last.calls[1].args[1] IN
        /\ last.calls[1].args[2] = 80
        /\ frames % 2 = 0
        /\ frames \div 2 <= USizeDiv(last.args.len, 160)

\* 321 floats: 4 frames, 320 floats, one short of the slice
C30_Witness ==
    /\ last.op = "set_mel"
    /\ last.args.len = USize(0, 321)
    /\ last.calls[1].args = <<4, 80>>


(* ------------------- C26: loading the VAD context ----------------------- *)

\* C26: WhisperVadContext::new returns, for every model path, a context or
\* NullPointer and never panics; when it returns NullPointer no context
\* exists and the VAD-free routine has not been called.
C26_VadLoadNeverPanics ==
    last.op = "vad_new" =>
        /\ last.ret \in {Ok(VadCtxPtr), NullPointer}
        /\ last.ret = NullPointer =>
               /\ vadCtx = "unloaded"
               /\ Count(vadFrees, "whisper_vad_free", VadCtxPtr) = 0


(* ------------------- C27: the VAD's two resources ----------------------- *)

VadFreeRoutines == {"whisper_vad_free", "whisper_vad_free_segments"}

\* C27: the segment-free routine is called exactly once for a container, on
\* its drop, and the VAD-free routine exactly once for the context, on its
\* drop; dropping the context releases no container, and a container is
\* indexed and iterated as before once the context is gone.
C27_VadResourcesIndependent ==
    /\ \A p \in VadSegmentPtrs :
           Count(vadFrees, "whisper_vad_free_segments", p) =
               IF vadSegs[p] = DroppedSegments THEN 1 ELSE 0
    /\ Count(vadFrees, "whisper_vad_free", VadCtxPtr) =
           IF vadCtx = "dropped" THEN 1 ELSE 0
    /\ \A k \in 1..Len(vadFrees) : vadFrees[k].fn \in VadFreeRoutines
    /\ last.op = "drop_vad_context" =>
           /\ vadSegs = last.containers_before
           /\ last.calls = <<Call("whisper_vad_free", VadCtxPtr, <<>>)>>
    /\ last.op = "drop_vad_segments" =>
           last.calls = <<Call("whisper_vad_free_segments", last.container, <<>>)>>
    /\ last.op \notin {"drop_vad_context", "drop_vad_segments"} =>
           \A k \in 1..Len(last.calls) : last.calls[k].fn \notin VadFreeRoutines
    /\ (vadCtx = "dropped" /\ last.op \in VadGetters \cup {"vad_next"}) =>
           LET p == last.container
           IN  IF 0 <= last.idx /\ last.idx < num_segments(p)
                   THEN last.ret = Some(IF last.op = "vad_next"
                                            THEN EngineSegment(p, last.idx)
                                            ELSE VadExpected(last.op, p, last.idx))
                   ELSE last.ret = None

\* the second segment is yielded by the iteration after the context was
\* dropped, the container not yet released
C27_Witness ==
    /\ vadCtx = "dropped"
    /\ last.op = "vad_next"
    /\ last.idx = 1
    /\ last.ret = Some(EngineSegment(last.container, 1))
    /\ vadFrees = <<Call("whisper_vad_free", VadCtxPtr, <<>>)>>


(* ------------------- C29: the index a segment view names ---------------- *)

\* C29: every segment view names an index in [0, full_n_segments()) of its
\* state when it is built; get_segment returns nothing for an index out of
\* that range, and get_segment_unchecked panics for one, before a view is
\* built and before the engine's token-count getter is called.
C29_ViewsNameExistingSegments ==
    /\ \A v \in views : segment_in_bounds(v.state, v.segment_idx)
    /\ (last.op \in ViewMakers /\ last.ret.tag \in {"Some", "Ok"}) =>
           /\ segment_in_bounds(last.state, last.ret.val.segment_idx)
           /\ last.ret.val.segment_idx = last.segment
    /\ (last.op \in ViewMakers /\ ~segment_in_bounds(last.state, last.segment)) =>
           /\ last.ret.tag \notin {"Some", "Ok"}
           /\ TokenCountCalls(last.calls) = {}
    /\ (last.op = "get_segment" /\ ~segment_in_bounds(last.state, last.segment)) =>
           last.ret = None
    /\ (last.op = "get_segment_unchecked"
           /\ ~segment_in_bounds(last.state, last.segment)) =>
           last.ret.tag = "Panic"

\* get_segment_unchecked is given the index one past the last of two segments
C29_Witness ==
    /\ last.op = "get_segment_unchecked"
    /\ last.segment = 2
    /\ nSeg[last.state] = 2
    /\ last.ret.tag = "Panic"
    /\ last.calls = <<Call("whisper_full_n_segments_from_state", last.state, <<>>)>>

====
